---------------------------- MODULE Spec2Model ----------------------------
(***************************************************************************)
(* County building-permit scraper (county_permits_scraper.py).             *)
(*                                                                         *)
(* Three specifications share the variables below:                         *)
(*   Spec        main(): configuration, the four scrapes of run_all, the   *)
(*               browser sessions, the files written and the log;          *)
(*   SpecExtract the three extractors applied to bounded markup;           *)
(*   SpecSink    save_to_csv and generate_sorted_versions applied to       *)
(*               bounded record sequences.                                 *)
(*                                                                         *)
(* Text is a sequence of one-character strings, so that strip, split,      *)
(* re.sub, float and strptime are computed character by character.         *)
(***************************************************************************)
EXTENDS Integers, Sequences, FiniteSets, TLC

VARIABLES
    config,     \* the configuration document on disk (see ConfigSet)
    args_sort,  \* args.sort: whether --sort was given
    pc,         \* position of the program
    county,     \* index in Sources of the scrape in progress (0: none yet)
    spawned,    \* per source, the number of browser processes launched
    live,       \* the sources whose browser process is still running
    soup,       \* the markup held by the extraction step (NoSoup: none)
    content,    \* the raw CSV text given to parse_csv_permits
    extracted,  \* the record list as the extractor returned it
    permits,    \* the same list after the sink's in-place sort
    files,      \* the files written so far: [slug, variant, rows]
    log,        \* scraper.log: a sequence of [level, msg, county, n]
    err,        \* the exception in flight inside the current operation
    exc         \* the exception that left main() ([kind |-> "none"]: none)

vars == <<config, args_sort, pc, county, spawned, live, soup, content,
          extracted, permits, files, log, err, exc>>

---------------------------------------------------------------------------
(* Characters and text                                                     *)

Digits == {"0", "1", "2", "3", "4", "5", "6", "7", "8", "9"}

DigitChars == <<"0", "1", "2", "3", "4", "5", "6", "7", "8", "9">>

DigitVal(c) == (CHOOSE i \in 1..10 : DigitChars[i] = c) - 1

Upper == <<"A", "B", "C", "D", "E", "F", "G", "H", "I", "J", "K", "L", "M",
           "N", "O", "P", "Q", "R", "S", "T", "U", "V", "W", "X", "Y", "Z">>

Lower == <<"a", "b", "c", "d", "e", "f", "g", "h", "i", "j", "k", "l", "m",
           "n", "o", "p", "q", "r", "s", "t", "u", "v", "w", "x", "y", "z">>

\* The characters of the model in code-point order.
CodePoints == <<"\n", " ", "$", ",", "-", ".", "/">> \o DigitChars \o Upper \o Lower

Ord(c) == CHOOSE i \in 1..Len(CodePoints) : CodePoints[i] = c

Whitespace == {" ", "\n"}

\* str.lower() of one character, and of a text.
LowerChar(c) ==
    IF \E i \in 1..Len(Upper) : Upper[i] = c
    THEN Lower[CHOOSE i \in 1..Len(Upper) : Upper[i] = c]
    ELSE c

lower(t) == [i \in 1..Len(t) |-> LowerChar(t[i])]

\* str.strip(): leading and trailing whitespace removed.
strip(t) ==
    LET idx == {i \in 1..Len(t) : t[i] \notin Whitespace}
    IN  IF idx = {} THEN <<>>
        ELSE LET lo == CHOOSE i \in idx : \A j \in idx : i <= j
                 hi == CHOOSE i \in idx : \A j \in idx : i >= j
             IN  SubSeq(t, lo, hi)

RECURSIVE split(_, _)
\* str.split(sep) for a one-character separator: always at least one part.
split(t, sep) ==
    LET cuts == {i \in 1..Len(t) : t[i] = sep}
    IN  IF cuts = {} THEN <<t>>
        ELSE LET first == CHOOSE i \in cuts : \A j \in cuts : i <= j
             IN  <<SubSeq(t, 1, first - 1)>>
                   \o split(SubSeq(t, first + 1, Len(t)), sep)

\* Lexicographic order of str on code points: a < b.
TextLess(a, b) ==
    \E i \in 1..(Len(a) + 1) :
        /\ i <= Len(b)
        /\ \A j \in 1..(i - 1) : a[j] = b[j]
        /\ \/ i = Len(a) + 1
           \/ Ord(a[i]) < Ord(b[i])

RECURSIVE Pow10(_)
Pow10(n) == IF n = 0 THEN 1 ELSE 10 * Pow10(n - 1)

RECURSIVE DigitsVal(_)
\* int() of a text of decimal digits (0 for the empty text).
DigitsVal(t) ==
    IF t = <<>> THEN 0
    ELSE 10 * DigitsVal(SubSeq(t, 1, Len(t) - 1)) + DigitVal(t[Len(t)])

AllDigits(t) == \A i \in 1..Len(t) : t[i] \in Digits

---------------------------------------------------------------------------
(* datetime.strptime(text, "%m/%d/%Y") and float(text)                     *)

NonZeroDigits == Digits \ {"0"}

\* %m: 1[0-2] | 0[1-9] | [1-9]
MonthText(p) ==
    \/ Len(p) = 2 /\ p[1] = "1" /\ p[2] \in {"0", "1", "2"}
    \/ Len(p) = 2 /\ p[1] = "0" /\ p[2] \in NonZeroDigits
    \/ Len(p) = 1 /\ p[1] \in NonZeroDigits

\* %d: 3[01] | [12]\d | 0[1-9] | [1-9] | " "[1-9]
DayText(p) ==
    \/ Len(p) = 2 /\ p[1] = "3" /\ p[2] \in {"0", "1"}
    \/ Len(p) = 2 /\ p[1] \in {"1", "2"} /\ p[2] \in Digits
    \/ Len(p) = 2 /\ p[1] \in {"0", " "} /\ p[2] \in NonZeroDigits
    \/ Len(p) = 1 /\ p[1] \in NonZeroDigits

\* %Y: \d\d\d\d
YearText(p) == Len(p) = 4 /\ AllDigits(p)

IsLeap(y) == (y % 4 = 0) /\ ((y % 100 # 0) \/ (y % 400 = 0))

DaysInMonth(y, m) ==
    IF m = 2 THEN (IF IsLeap(y) THEN 29 ELSE 28)
    ELSE IF m \in {4, 6, 9, 11} THEN 30
    ELSE 31

\* The fields strptime reads; ok = FALSE stands for its ValueError (the text
\* does not match the format, or names no date of the calendar).
strptime(t) ==
    LET parts == split(t, "/")
        shape == /\ Len(parts) = 3
                 /\ MonthText(parts[1])
                 /\ DayText(parts[2])
                 /\ YearText(parts[3])
        m == DigitsVal(parts[1])
        d == DigitsVal(strip(parts[2]))
        y == DigitsVal(parts[3])
    IN  IF shape /\ y >= 1 /\ d <= DaysInMonth(y, m)
        THEN [ok |-> TRUE, y |-> y, m |-> m, d |-> d]
        ELSE [ok |-> FALSE, y |-> 0, m |-> 0, d |-> 0]

\* datetime values compare by (year, month, day).
DateOrd(dt) == dt.y * 10000 + dt.m * 100 + dt.d

\* datetime.min is 0001-01-01.
datetime_min == [ok |-> TRUE, y |-> 1, m |-> 1, d |-> 1]

\* re.sub(r'[^\d.]', '', text)
StripNonNumeric(t) == SelectSeq(t, LAMBDA c : c \in Digits \cup {"."})

\* float(text) for a text of digits and dots: digits with at most one dot and
\* at least one digit; anything else is its ValueError (ok = FALSE).  The
\* value is num / 10^scale.
float(t) ==
    LET parts == split(t, ".")
        digits == SelectSeq(t, LAMBDA c : c \in Digits)
    IN  IF Len(parts) <= 2 /\ digits # <<>>
        THEN [ok |-> TRUE, num |-> DigitsVal(digits),
              scale |-> IF Len(parts) = 2 THEN Len(parts[2]) ELSE 0]
        ELSE [ok |-> FALSE, num |-> 0, scale |-> 0]

\* The int 0 that the valuation key gives an empty valuation.
ZeroKey == [ok |-> TRUE, num |-> 0, scale |-> 0]

\* a < b for two numeric keys.
NumLess(a, b) == a.num * Pow10(b.scale) < b.num * Pow10(a.scale)

---------------------------------------------------------------------------
(* Markup and the extractors                                               *)

\* The driver holds no page yet.
NoSoup == [tables |-> <<>>, elems |-> <<>>, page |-> FALSE]

\* BeautifulSoup(driver.page_source): the table elements in document order
\* (a table is its tr rows, a row the texts of its td cells) and the texts of
\* the div/li elements whose class matches permit|result|record.
MakeSoup(tables, elems) == [tables |-> tables, elems |-> elems, page |-> TRUE]

Permit(pn, dt, ad, wt, co, va) ==
    [permit_number |-> pn, issue_date |-> dt, address |-> ad,
     work_type |-> wt, contractor |-> co, valuation |-> va]

\* cols[i].get_text().strip(), i counted from 0 as in the source.
CellText(cols, i) == strip(cols[i + 1])

\* table.find_all('tr')[1:]
DataRows(table) == SubSeq(table, 2, Len(table))

\* The column test of parse_accela_results.
AccelaRowOk(cols) == Len(cols) >= 6

AccelaPermit(cols) ==
    Permit(CellText(cols, 0), CellText(cols, 1), CellText(cols, 2),
           CellText(cols, 3),
           IF Len(cols) > 4 THEN CellText(cols, 4) ELSE <<>>,
           IF Len(cols) > 5 THEN CellText(cols, 5) ELSE <<>>)

parse_accela_results(s) ==
    IF s.tables = <<>> THEN <<>>
    ELSE LET kept == SelectSeq(DataRows(s.tables[1]), AccelaRowOk)
         IN  [i \in 1..Len(kept) |-> AccelaPermit(kept[i])]

\* The column test of the table branch with its threshold one too low.
NashvilleRowOkThree(cols) == Len(cols) >= 3

\* The column test of the table branch of parse_nashville_results.
NashvilleRowOk(cols) == Len(cols) >= 4

NashvillePermit(cols) ==
    Permit(CellText(cols, 0),
           IF Len(cols) > 1 THEN CellText(cols, 1) ELSE <<>>,
           IF Len(cols) > 2 THEN CellText(cols, 2) ELSE <<>>,
           IF Len(cols) > 3 THEN CellText(cols, 3) ELSE <<>>,
           IF Len(cols) > 4 THEN CellText(cols, 4) ELSE <<>>,
           IF Len(cols) > 5 THEN CellText(cols, 5) ELSE <<>>)

Unknown == <<"U", "n", "k", "n", "o", "w", "n">>

\* The line test of the card branch of parse_nashville_results.
CardOk(lines) == Len(lines) >= 3

CardPermit(lines) ==
    Permit(strip(lines[1]),
           IF Len(lines) > 1 THEN strip(lines[2]) ELSE <<>>,
           IF Len(lines) > 2 THEN strip(lines[3]) ELSE <<>>,
           Unknown, <<>>, <<>>)

\* The table branch: the records of the first table.
NashvilleTablePermits(s) ==
    IF s.tables = <<>> THEN <<>>
    ELSE LET kept == SelectSeq(DataRows(s.tables[1]), NashvilleRowOk)
         IN  [i \in 1..Len(kept) |-> NashvillePermit(kept[i])]

\* The card branch: one record per matching element of three lines or more.
NashvilleCardPermits(s) ==
    LET texts == [i \in 1..Len(s.elems) |-> split(s.elems[i], "\n")]
        kept  == SelectSeq(texts, CardOk)
    IN  [i \in 1..Len(kept) |-> CardPermit(kept[i])]

\* The card branch runs when the table branch left the list empty.
parse_nashville_results(s) ==
    LET fromTable == NashvilleTablePermits(s)
    IN  IF fromTable = <<>> THEN NashvilleCardPermits(s) ELSE fromTable

\* The part test of parse_csv_permits.
CsvLineOk(parts) == Len(parts) >= 6

CsvPermit(parts) ==
    Permit(strip(parts[1]), strip(parts[2]), strip(parts[3]),
           strip(parts[4]), strip(parts[5]), strip(parts[6]))

\* The comma-separated parts of the non-blank lines after the header.
CsvDataLines(text) ==
    LET lines == split(text, "\n")
        body  == SubSeq(lines, 2, Len(lines))
        used  == SelectSeq(body, LAMBDA l : strip(l) # <<>>)
    IN  [i \in 1..Len(used) |-> split(used[i], ",")]

parse_csv_permits(text) ==
    LET kept == SelectSeq(CsvDataLines(text), CsvLineOk)
    IN  [i \in 1..Len(kept) |-> CsvPermit(kept[i])]

---------------------------------------------------------------------------
(* The sink: save_to_csv and generate_sorted_versions                      *)

\* a < b for two sort keys of one kind: datetime values (as DateOrd gives
\* them), numbers (float, or the int 0) and str.
KeyLess(kind, a, b) ==
    CASE kind = "datetime" -> a < b
      [] kind = "number"   -> NumLess(a, b)
      [] OTHER             -> TextLess(a, b)

\* list.sort / sorted with a key: the keys are computed first, then the
\* elements are ordered by key, equal keys keeping their order (the sort is
\* stable, with reverse too).  The result is the sequence of the original
\* indices in their new order.
SortOrder(keys, kind, reverse) ==
    LET n == Len(keys)
        ks == keys \o <<>>     \* the keys, each computed once
        Before(a, b) == IF reverse THEN KeyLess(kind, b, a) ELSE KeyLess(kind, a, b)
        pos(i) == 1 + Cardinality({j \in 1..n : Before(ks[j], ks[i])})
                    + Cardinality({j \in 1..(i - 1) :
                                      /\ ~Before(ks[j], ks[i])
                                      /\ ~Before(ks[i], ks[j])})
    IN  [p \in 1..n |-> CHOOSE i \in 1..n : pos(i) = p]

Reorder(xs, order) == [p \in 1..Len(xs) |-> xs[order[p]]]

LogEntry(level, msg, slug, n) == [level |-> level, msg |-> msg, slug |-> slug, n |-> n]

\* data/{slug}_permits_{timestamp}{variant}.csv with its data rows; one
\* timestamp per save_to_csv call, so slug and variant name the file of a call.
CsvFile(slug, variant, rows) == [slug |-> slug, variant |-> variant, rows |-> rows]

\* sort_keys, in the order the dict is iterated.
SortNames == <<"date", "valuation", "address", "contractor", "work_type">>

\* Whether computing the keys of one sort raises ValueError.
SortKeyRaises(name, ps) ==
    CASE name = "date" ->
            \E i \in 1..Len(ps) :
                ps[i].issue_date # <<>> /\ ~strptime(ps[i].issue_date).ok
      [] name = "valuation" ->
            \E i \in 1..Len(ps) :
                ps[i].valuation # <<>> /\ ~float(StripNonNumeric(ps[i].valuation)).ok
      [] OTHER -> FALSE

\* sorted(permits, key=sort_func, reverse=(sort_name in ['date', 'valuation']))
SortedBy(name, ps) ==
    CASE name = "date" ->
            Reorder(ps, SortOrder(
                [i \in 1..Len(ps) |->
                    IF ps[i].issue_date # <<>>
                    THEN DateOrd(strptime(ps[i].issue_date))
                    ELSE DateOrd(datetime_min)],
                "datetime", TRUE))
      [] name = "valuation" ->
            Reorder(ps, SortOrder(
                [i \in 1..Len(ps) |->
                    IF ps[i].valuation # <<>>
                    THEN float(StripNonNumeric(ps[i].valuation))
                    ELSE ZeroKey],
                "number", TRUE))
      [] name = "address" ->
            Reorder(ps, SortOrder([i \in 1..Len(ps) |-> lower(ps[i].address)],
                                  "str", FALSE))
      [] name = "contractor" ->
            Reorder(ps, SortOrder([i \in 1..Len(ps) |-> lower(ps[i].contractor)],
                                  "str", FALSE))
      [] OTHER ->
            Reorder(ps, SortOrder([i \in 1..Len(ps) |-> lower(ps[i].work_type)],
                                  "str", FALSE))

\* The loop over sort_keys: each turn sorts, then writes its file and logs.
\* The first turn whose key raises ends the loop with ValueError; io_ok =
\* FALSE is an open() that raises OSError.  The result is the files written,
\* the log entries made and the exception raised ("none": returned).
generate_sorted_versions(ps, county_slug, io_ok) ==
    LET bad   == {k \in 1..Len(SortNames) : SortKeyRaises(SortNames[k], ps)}
        stop  == IF bad = {} THEN Len(SortNames) + 1
                 ELSE CHOOSE k \in bad : \A j \in bad : k <= j
        done  == IF io_ok THEN stop - 1 ELSE 0
    IN  [files  |-> {CsvFile(county_slug, "sorted_" \o SortNames[k],
                             SortedBy(SortNames[k], ps)) : k \in 1..done},
         log    |-> [k \in 1..done |->
                        LogEntry("INFO", "saved_sorted_" \o SortNames[k], county_slug, Len(ps))],
         raised |-> IF stop = 1 THEN "ValueError"
                    ELSE IF ~io_ok THEN "OSError"
                    ELSE IF stop <= Len(SortNames) THEN "ValueError"
                    ELSE "none"]

\* permits.sort(key=strptime(issue_date), reverse=True) inside try/except
\* ValueError: the keys are all computed before any element moves, so one
\* unparseable date leaves the list as it was.
DateSortable(ps) == \A i \in 1..Len(ps) : strptime(ps[i].issue_date).ok

\* The date sort with reverse=True dropped.
SortByIssueDateAscending(ps) ==
    Reorder(ps, SortOrder([i \in 1..Len(ps) |-> DateOrd(strptime(ps[i].issue_date))],
                          "datetime", FALSE))

SortByIssueDate(ps) ==
    Reorder(ps, SortOrder([i \in 1..Len(ps) |-> DateOrd(strptime(ps[i].issue_date))],
                          "datetime", TRUE))

\* save_to_csv after its first test: the date sort, the primary file and,
\* when asked, the sorted versions.  The result is the list after the
\* in-place sort, the files written, the log entries and the exception raised.
WriteCsv(ps, county_slug, generate_sorted, io_ok) ==
    LET sorted == IF DateSortable(ps) THEN SortByIssueDate(ps) ELSE ps
        warn   == IF DateSortable(ps) THEN <<>>
                  ELSE <<LogEntry("WARNING", "could_not_sort", county_slug, 0)>>
        more   == generate_sorted_versions(sorted, county_slug, io_ok)
    IN  IF ~io_ok
        THEN [permits |-> sorted, files |-> {}, log |-> warn, raised |-> "OSError"]
        ELSE [permits |-> sorted,
              files   |-> {CsvFile(county_slug, "primary", sorted)}
                            \cup (IF generate_sorted THEN more.files ELSE {}),
              log     |-> warn
                            \o <<LogEntry("INFO", "saved", county_slug, Len(sorted))>>
                            \o (IF generate_sorted THEN more.log ELSE <<>>),
              raised  |-> IF generate_sorted THEN more.raised ELSE "none"]

\* A save_to_csv that lost its "if not permits: return".
save_to_csv_unguarded(ps, county_slug, generate_sorted, io_ok) ==
    WriteCsv(ps, county_slug, generate_sorted, io_ok)

\* save_to_csv(permits, county_slug, generate_sorted): nothing at all for an
\* empty list.
save_to_csv(ps, county_slug, generate_sorted, io_ok) ==
    IF ps = <<>>
    THEN [permits |-> ps, files |-> {}, log |-> <<>>, raised |-> "none"]
    ELSE WriteCsv(ps, county_slug, generate_sorted, io_ok)

---------------------------------------------------------------------------
(* Sample texts and the bounded inputs                                     *)

\* Two table rows of seven td cells, cut to fewer columns below, and a header
\* row made of td cells.
RowA ==
    <<<<" ", "P", "1", " ">>,
      <<"0", "1", "/", "0", "5", "/", "2", "0", "2", "4">>,
      <<"1", " ", "M", "a", "i", "n", " ", "S", "t">>,
      <<"R", "o", "o", "f">>,
      <<"A", "C", "M", "E">>,
      <<"$", "1", "0", ",", "0", "0", "0">>,
      <<"e", "x", "t", "r", "a">>>>

RowB ==
    <<<<"P", "2">>,
      <<"0", "1", "/", "0", "7", "/", "2", "0", "2", "4">>,
      <<" ", "2", " ", "O", "a", "k", " ", "A", "v", "e">>,
      <<"A", "d", "d", "i", "t", "i", "o", "n">>,
      <<>>,
      <<>>,
      <<>>>>

HeaderRow ==
    <<<<"P", "e", "r", "m", "i", "t">>,
      <<"D", "a", "t", "e">>,
      <<"A", "d", "d", "r", "e", "s", "s">>,
      <<"T", "y", "p", "e">>,
      <<"C", "o", "n", "t", "r", "a", "c", "t", "o", "r">>,
      <<"V", "a", "l", "u", "e">>>>

\* Texts of card elements: three, two and four lines.
CardThree ==
    <<"P", "9", "\n", "0", "1", "/", "0", "9", "/", "2", "0", "2", "4", "\n",
    "9", " ", "E", "l", "m", " ", "S", "t">>

CardTwo ==
    <<"P", "8", "\n", "0", "1", "/", "0", "8", "/", "2", "0", "2", "4">>

CardFour ==
    <<" ", "P", "7", " ", "\n", "1", "/", "6", "/", "2", "0", "2", "4", "\n",
    "7", " ", "F", "i", "r", " ", "R", "d", "\n", "D", "e", "c", "k">>

\* Raw CSV exports.
CsvGood ==
    <<"i", "d", ",", "d", "a", "t", "e", ",", "a", "d", "d", "r", ",", "t",
    "y", "p", "e", ",", "w", "h", "o", ",", "v", "a", "l", "\n", "A", "1",
    ",", "0", "1", "/", "0", "5", "/", "2", "0", "2", "4", ",", "1", " ", "M",
    "a", "i", "n", " ", "S", "t", ",", "R", "o", "o", "f", ",", "A", "C", "M",
    "E", ",", "$", "1", "0", "\n", "\n", "B", "2", ",", "1", "/", "7", "/",
    "2", "0", "2", "4", ",", "2", " ", "O", "a", "k", " ", "A", "v", "e",
    "\n">>

CsvComma ==
    <<"h", "\n", "C", "3", ",", "0", "1", "/", "0", "9", "/", "2", "0", "2",
    "4", ",", "3", " ", "A", "s", "h", " ", "L", "n", ",", "P", "o", "o", "l",
    ",", "B", "o", "b", ",", "$", "1", "0", ",", "0", "0", "0">>

CsvShort ==
    <<"h", "\n", "D", "4", ",", "0", "1", "/", "0", "2", "/", "2", "0", "2",
    "4", ",", "4", " ", "B", "a", "y", " ", "C", "t", ",", "F", "e", "n", "c",
    "e", ",", "A", "l">>

CsvHeaderOnly ==
    <<"i", "d", ",", "d", "a", "t", "e", ",", "a", "d", "d", "r", ",", "t",
    "y", "p", "e", ",", "w", "h", "o", ",", "v", "a", "l">>

\* Issue dates and valuations as the portals print them.
D_0105 == <<"0", "1", "/", "0", "5", "/", "2", "0", "2", "4">>

D_0107 == <<"1", "/", "7", "/", "2", "0", "2", "4">>

D_1231 == <<"1", "2", "/", "3", "1", "/", "2", "0", "2", "3">>

D_Iso == <<"2", "0", "2", "4", "-", "0", "1", "-", "0", "5">>

D_Feb30 == <<"0", "2", "/", "3", "0", "/", "2", "0", "2", "4">>

V_125k == <<"$", "1", "2", "5", ",", "0", "0", "0">>

V_75k == <<"7", "5", "0", "0", "0", ".", "5", "0">>

V_NA == <<"N", "/", "A">>

V_Dots == <<"1", ".", "2", ".", "3">>

V_10k == <<"$", "1", "0", ",", "0", "0", "0">>

V_500 == <<"5", "0", "0">>

A_Main == <<"1", " ", "M", "a", "i", "n", " ", "S", "t">>

A_Oak == <<"2", " ", "o", "a", "k", " ", "a", "v", "e">>

W_Roof == <<"R", "o", "o", "f">>

W_Addition == <<"a", "d", "d", "i", "t", "i", "o", "n">>

C_Acme == <<"A", "C", "M", "E">>

C_Bob == <<"B", "o", "b">>


\* Bounds of the generated inputs.
MaxRows == 2

MaxCards == 1

MaxPermits == 3

\* Sequences over S of length 0..n.
SeqsUpTo(S, n) == UNION {[1..k -> S] : k \in 0..n}

\* Rows of 0, 3, 4, 5, 6 and 7 td cells.
RowSamples ==
    {SubSeq(r, 1, k) : r \in {RowA, RowB}, k \in {0, 3, 4, 5, 6, 7}}

\* A table: nothing at all, or a header row and up to MaxRows rows.
TableSamples ==
    {<<>>} \cup {<<HeaderRow>> \o rows : rows \in SeqsUpTo(RowSamples, MaxRows)}

CardSamples == {CardThree, CardTwo, CardFour}

\* The pages given to the extractors: no table or one, and up to MaxCards cards.
ExtractSoups ==
    {MakeSoup(ts, es) :
        ts \in {<<>>} \cup {<<t>> : t \in TableSamples},
        es \in SeqsUpTo(CardSamples, MaxCards)}

CsvSamples == {<<>>, CsvHeaderOnly, CsvGood, CsvComma, CsvShort}

\* What one record of the sink's input carries besides its permit number.
FieldSamples ==
    {[d |-> D_0105,  v |-> V_125k, a |-> A_Main, c |-> C_Acme, w |-> W_Roof],
     [d |-> D_0107,  v |-> <<>>,   a |-> A_Oak,  c |-> <<>>,   w |-> W_Addition],
     [d |-> D_1231,  v |-> V_75k,  a |-> A_Main, c |-> C_Bob,  w |-> W_Roof],
     [d |-> D_0105,  v |-> V_NA,   a |-> A_Oak,  c |-> C_Acme, w |-> W_Addition],
     [d |-> D_Iso,   v |-> V_Dots, a |-> A_Main, c |-> C_Bob,  w |-> W_Roof],
     [d |-> <<>>,    v |-> V_10k,  a |-> A_Oak,  c |-> <<>>,   w |-> W_Roof],
     [d |-> D_Feb30, v |-> V_500,  a |-> A_Main, c |-> C_Acme, w |-> W_Addition]}

\* The i-th record of a list is numbered P<i>, so that its place can be followed.
PermitNo(i) == <<"P", DigitChars[i + 1]>>

\* The record lists given to the sink: 1..MaxPermits records.
PermitLists ==
    {[i \in 1..Len(fs) |->
        Permit(PermitNo(i), fs[i].d, fs[i].a, fs[i].w, fs[i].c, fs[i].v)] :
        fs \in SeqsUpTo(FieldSamples, MaxPermits) \ {<<>>}}

\* The pages a portal returns in a run: an empty page, a results grid of two
\* full rows, a grid whose only row has four columns, and a page of cards.
RunSoups ==
    {MakeSoup(<<>>, <<>>),
     MakeSoup(<<<<HeaderRow, SubSeq(RowA, 1, 6), SubSeq(RowB, 1, 6)>>>>, <<>>),
     MakeSoup(<<<<HeaderRow, SubSeq(RowA, 1, 4)>>>>, <<>>),
     MakeSoup(<<>>, <<CardThree>>)}

---------------------------------------------------------------------------
(* main(): configuration, run_all and the four scrapes                     *)

\* The order of run_all.
Sources == <<"bexar", "hamilton", "davidson", "travis">>

SourceNames == {Sources[i] : i \in 1..Len(Sources)}

\* config.yaml: whether the file is there and parses, whether it has the
\* global section, the counties it has an entry for and the counties whose
\* entry has its selectors.
GoodConfig ==
    [file |-> "ok", global |-> TRUE, counties |-> SourceNames, selectors |-> SourceNames]

ConfigSet ==
    {GoodConfig,
     [GoodConfig EXCEPT !.file = "missing"],
     [GoodConfig EXCEPT !.file = "malformed"],
     [GoodConfig EXCEPT !.global = FALSE]}
    \cup {[GoodConfig EXCEPT !.counties = SourceNames \ {c}] : c \in SourceNames}
    \cup {[GoodConfig EXCEPT !.selectors = SourceNames \ {c}] : c \in SourceNames}

NoExc == [kind |-> "none", origin |-> "none", slug |-> ""]

Exc(kind, origin, slug) == [kind |-> kind, origin |-> origin, slug |-> slug]

\* The failures of the navigation steps: a bounded wait that times out, an
\* element that is not found.
NavErrors == {"TimeoutException", "NoSuchElementException"}

\* An except clause that names the bounded wait's exception only.
CaughtTimeoutOnly(e) == e = "TimeoutException"

\* except Exception: every failure of the model is an Exception.
Caught(e) == TRUE

\* The generate_sorted argument the scrapes give save_to_csv: none, so the
\* parameter's default, whatever run_all was given.
ScrapeGenerateSorted(run_all_generate_sorted) == FALSE

\* The extractor each scrape calls.
Extract(slug, s) ==
    IF slug = "davidson" THEN parse_nashville_results(s) ELSE parse_accela_results(s)

Slug == Sources[county]

Init ==
    /\ config \in ConfigSet
    /\ args_sort \in BOOLEAN
    /\ pc = "main"
    /\ county = 0
    /\ spawned = [c \in SourceNames |-> 0]
    /\ live = {}
    /\ soup = NoSoup
    /\ content = <<>>
    /\ extracted = <<>>
    /\ permits = <<>>
    /\ files = {}
    /\ log = <<>>
    /\ err = "none"
    /\ exc = NoExc

\* main() up to run_all: CountyPermitScraper() loads the configuration and
\* reads its global section; a failure leaves main() uncaught.
Construct ==
    /\ pc = "main"
    /\ IF config.file = "missing"
       THEN pc' = "exit" /\ exc' = Exc("FileNotFoundError", "config", "")
       ELSE IF config.file = "malformed"
       THEN pc' = "exit" /\ exc' = Exc("YAMLError", "config", "")
       ELSE IF ~config.global
       THEN pc' = "exit" /\ exc' = Exc("KeyError", "config", "")
       ELSE pc' = "run_all" /\ exc' = exc
    /\ UNCHANGED <<config, args_sort, county, spawned, live, soup, content,
                   extracted, permits, files, log, err>>

\* run_all: the first log line, then scrape_bexar.
RunAllStart ==
    /\ pc = "run_all"
    /\ log' = Append(log, LogEntry("INFO", "starting_cycle", "", 0))
    /\ county' = 1
    /\ pc' = "scrape"
    /\ UNCHANGED <<config, args_sort, spawned, live, soup, content, extracted,
                   permits, files, err, exc>>

\* scrape_<county>, first line: the county's entry of the configuration,
\* read outside the try.
ScrapeEnter ==
    /\ pc = "scrape"
    /\ soup' = NoSoup
    /\ extracted' = <<>>
    /\ permits' = <<>>
    /\ IF Slug \in config.counties
       THEN pc' = "launch" /\ exc' = exc
       ELSE pc' = "exit" /\ exc' = Exc("KeyError", "config", Slug)
    /\ UNCHANGED <<config, args_sort, county, spawned, live, content, files,
                   log, err>>

\* get_driver up to webdriver.Chrome(...): the driver is installed and the
\* browser process launched, or one of the two raises.
GetDriverLaunch ==
    /\ pc = "launch"
    /\ \E ok \in BOOLEAN :
        IF ok
        THEN /\ spawned' = [spawned EXCEPT ![Slug] = @ + 1]
             /\ live' = live \cup {Slug}
             /\ pc' = "configure"
             /\ exc' = exc
        ELSE /\ pc' = "exit"
             /\ exc' = Exc("WebDriverException", "get_driver", Slug)
             /\ UNCHANGED <<spawned, live>>
    /\ UNCHANGED <<config, args_sort, county, soup, content, extracted,
                   permits, files, log, err>>

\* get_driver, execute_cdp_cmd on the launched browser: it returns the
\* driver, or raises with the browser running and no handle returned.
GetDriverConfigure ==
    /\ pc = "configure"
    /\ \E ok \in BOOLEAN :
        IF ok
        THEN pc' = "navigate" /\ exc' = exc
        ELSE pc' = "exit" /\ exc' = Exc("WebDriverException", "get_driver", Slug)
    /\ UNCHANGED <<config, args_sort, county, spawned, live, soup, content,
                   extracted, permits, files, log, err>>

\* The try block up to driver.page_source: the start is logged, the page is
\* loaded and the search driven through the configured selectors.
Navigate ==
    /\ pc = "navigate"
    /\ log' = Append(log, LogEntry("INFO", "starting", Slug, 0))
    /\ \/ \E e \in NavErrors :
            /\ err' = e
            /\ pc' = "except"
            /\ soup' = soup
       \/ /\ Slug \notin config.selectors
          /\ err' = "KeyError"
          /\ pc' = "except"
          /\ soup' = soup
       \/ /\ Slug \in config.selectors
          /\ soup' \in RunSoups
          /\ err' = err
          /\ pc' = "extract"
    /\ UNCHANGED <<config, args_sort, county, spawned, live, content,
                   extracted, permits, files, exc>>

\* The rest of the try block: the extractor, save_to_csv and the count logged.
ExtractAndSave ==
    /\ pc = "extract"
    /\ \E io_ok \in BOOLEAN :
      \E found \in {Extract(Slug, soup)} :
        \E saved \in {save_to_csv(found, Slug, ScrapeGenerateSorted(args_sort), io_ok)} :
            /\ extracted' = found
            /\ permits' = saved.permits
            /\ files' = files \cup saved.files
            /\ IF saved.raised = "none"
               THEN /\ log' = log \o saved.log
                               \o <<LogEntry("INFO", "scraped", Slug, Len(found))>>
                    /\ err' = err
                    /\ pc' = "finally"
               ELSE /\ log' = log \o saved.log
                    /\ err' = saved.raised
                    /\ pc' = "except"
    /\ UNCHANGED <<config, args_sort, county, spawned, live, soup, content, exc>>

\* except Exception as e: the error is logged.  A failure the clause does
\* not catch goes on to the finally block.
Except ==
    /\ pc = "except"
    /\ IF Caught(err)
       THEN /\ log' = Append(log, LogEntry("ERROR", "error_scraping", Slug, 0))
            /\ err' = "none"
       ELSE UNCHANGED <<log, err>>
    /\ pc' = "finally"
    /\ UNCHANGED <<config, args_sort, county, spawned, live, soup, content,
                   extracted, permits, files, exc>>

\* A finally block that lost its driver.quit().
FinallyWithoutQuit ==
    /\ pc = "finally"
    /\ IF err # "none"
       THEN /\ exc' = Exc(err, "scrape", Slug)
            /\ pc' = "exit"
            /\ UNCHANGED <<county, log>>
       ELSE IF county < Len(Sources)
       THEN /\ county' = county + 1
            /\ pc' = "scrape"
            /\ UNCHANGED <<log, exc>>
       ELSE /\ log' = Append(log, LogEntry("INFO", "completed_cycle", "", 0))
            /\ pc' = "done"
            /\ UNCHANGED <<county, exc>>
    /\ UNCHANGED <<config, args_sort, spawned, live, soup, content, extracted,
                   permits, files, err>>

\* finally: driver.quit().  Then the scrape returns to run_all, which sleeps
\* and calls the next scrape, or logs the end of the cycle after the last.
Finally ==
    /\ pc = "finally"
    /\ live' = live \ {Slug}
    /\ IF err # "none"
       THEN /\ exc' = Exc(err, "scrape", Slug)
            /\ pc' = "exit"
            /\ UNCHANGED <<county, log>>
       ELSE IF county < Len(Sources)
       THEN /\ county' = county + 1
            /\ pc' = "scrape"
            /\ UNCHANGED <<log, exc>>
       ELSE /\ log' = Append(log, LogEntry("INFO", "completed_cycle", "", 0))
            /\ pc' = "done"
            /\ UNCHANGED <<county, exc>>
    /\ UNCHANGED <<config, args_sort, spawned, soup, content, extracted,
                   permits, files, err>>

Next ==
    \/ Construct
    \/ RunAllStart
    \/ ScrapeEnter
    \/ GetDriverLaunch
    \/ GetDriverConfigure
    \/ Navigate
    \/ ExtractAndSave
    \/ Except
    \/ Finally

Spec == Init /\ [][Next]_vars

---------------------------------------------------------------------------
(* The extractors on their own                                             *)

\* What the variables of the run hold when an operation is called on its own.
Idle ==
    /\ config = GoodConfig
    /\ county = 0
    /\ spawned = [c \in SourceNames |-> 0]
    /\ live = {}
    /\ exc = NoExc

InitExtract ==
    /\ Idle
    /\ args_sort = FALSE
    /\ pc = "ready"
    /\ \/ soup \in ExtractSoups /\ content = <<>>
       \/ soup = NoSoup /\ content \in CsvSamples
    /\ extracted = <<>>
    /\ permits = <<>>
    /\ files = {}
    /\ log = <<>>
    /\ err = "none"

ParseAccela ==
    /\ pc = "ready"
    /\ soup.page
    /\ extracted' = parse_accela_results(soup)
    /\ pc' = "parse_accela_results"
    /\ UNCHANGED <<config, args_sort, county, spawned, live, soup, content,
                   permits, files, log, err, exc>>

ParseNashville ==
    /\ pc = "ready"
    /\ soup.page
    /\ extracted' = parse_nashville_results(soup)
    /\ pc' = "parse_nashville_results"
    /\ UNCHANGED <<config, args_sort, county, spawned, live, soup, content,
                   permits, files, log, err, exc>>

ParseCsv ==
    /\ pc = "ready"
    /\ ~soup.page
    /\ extracted' = parse_csv_permits(content)
    /\ pc' = "parse_csv_permits"
    /\ UNCHANGED <<config, args_sort, county, spawned, live, soup, content,
                   permits, files, log, err, exc>>

NextExtract ==
    \/ ParseAccela
    \/ ParseNashville
    \/ ParseCsv

SpecExtract == InitExtract /\ [][NextExtract]_vars

---------------------------------------------------------------------------
(* The sink on its own                                                     *)

\* The slug the sink is called with.
SinkSlug == "bexar"

InitSink ==
    /\ Idle
    /\ args_sort \in BOOLEAN
    /\ pc = "ready"
    /\ soup = NoSoup
    /\ content = <<>>
    /\ extracted \in PermitLists \cup {<<>>}
    /\ permits = extracted
    /\ files = {}
    /\ log = <<>>
    /\ err = "none"

\* save_to_csv(permits, slug, generate_sorted), generate_sorted being args_sort.
SaveToCsv ==
    /\ pc = "ready"
    /\ \E io_ok \in BOOLEAN :
        \E saved \in {save_to_csv(extracted, SinkSlug, args_sort, io_ok)} :
            /\ permits' = saved.permits
            /\ files' = saved.files
            /\ log' = saved.log
            /\ err' = saved.raised
    /\ pc' = "save_to_csv"
    /\ UNCHANGED <<config, args_sort, county, spawned, live, soup, content,
                   extracted, exc>>

\* generate_sorted_versions(permits, slug, timestamp)
GenerateSortedVersions ==
    /\ pc = "ready"
    /\ extracted # <<>>
    /\ \E io_ok \in BOOLEAN :
        \E made \in {generate_sorted_versions(extracted, SinkSlug, io_ok)} :
            /\ files' = made.files
            /\ log' = made.log
            /\ err' = made.raised
    /\ pc' = "generate_sorted_versions"
    /\ UNCHANGED <<config, args_sort, county, spawned, live, soup, content,
                   extracted, permits, exc>>

NextSink ==
    \/ SaveToCsv
    \/ GenerateSortedVersions

SpecSink == InitSink /\ [][NextSink]_vars

---------------------------------------------------------------------------
(* Properties of the run (Spec)                                            *)

Logged(level, msg, slug) ==
    \E i \in 1..Len(log) :
        log[i].level = level /\ log[i].msg = msg /\ log[i].slug = slug

FilesOf(slug) == {f \in files : f.slug = slug}

VariantsOf(slug) == {f.variant : f \in FilesOf(slug)}

\* One step of the run, as C1 reads it.
C1_Step ==
    \* a failure raised in the try block reaches the except clause of the same scrape
    /\ (err = "none" /\ err' # "none")
          => (pc' = "except" /\ county' = county /\ exc' = NoExc)
    \* where it is logged with the source's name and goes no further
    /\ (err # "none")
          => /\ log' = Append(log, LogEntry("ERROR", "error_scraping", Slug, 0))
             /\ err' = "none"
             /\ exc' = NoExc
             /\ pc' = "finally"
    \* and the scrape returns to run_all, which calls the next source or ends
    /\ (pc = "finally")
          => /\ exc' = NoExc
             /\ IF county < Len(Sources)
                THEN pc' = "scrape" /\ county' = county + 1
                ELSE pc' = "done" /\ log'[Len(log')].msg = "completed_cycle"
    \* no step removes or rewrites a file already written
    /\ files \subseteq files'

\* C1: a failure raised inside a source's navigation, extraction or sink
\* step, once its session was obtained, is caught and logged inside that
\* source's scrape; run_all then calls the source that follows, or reaches
\* its completed end after the last; the files of earlier sources stay.
C1_FailureIsolated == [][C1_Step]_vars

\* C1 witness: the run completed although hamilton's scrape failed; bexar,
\* davidson and travis each have their file.
C1_Witness ==
    /\ pc = "done"
    /\ Logged("ERROR", "error_scraping", "hamilton")
    /\ FilesOf("bexar") # {}
    /\ FilesOf("hamilton") = {}
    /\ FilesOf("davidson") # {}
    /\ FilesOf("travis") # {}

\* C2: a browser-session failure (get_driver cannot create or configure the
\* session) never leaves run_all as a failure of the process.
C2_SessionFailureContained == ~(pc = "exit" /\ exc.origin = "get_driver")

\* Control is with the orchestrator: between two scrapes, or the run ended.
AtOrchestrator == pc \in {"scrape", "done", "exit"}

\* C3: each scrape launches exactly one browser session, and whenever control
\* is back with the orchestrator (or the run has ended) no session is live.
C3_SessionsReleased ==
    /\ \A c \in SourceNames : spawned[c] <= 1
    /\ AtOrchestrator => live = {}

\* The sources whose scrape logged its start, in the order of the log.
StartedOrder ==
    LET starts == SelectSeq(log, LAMBDA e : e.msg = "starting")
    IN  [i \in 1..Len(starts) |-> starts[i].slug]

\* The state of the run, as C12 reads it.
C12_State ==
    \* at most one session is open, and it is the current source's
    /\ Cardinality(live) <= 1
    /\ \A c \in live : county >= 1 /\ c = Sources[county]
    \* no source is given a second session, none is started twice
    /\ \A c \in SourceNames : spawned[c] <= 1
    /\ \A i, j \in 1..Len(StartedOrder) :
          StartedOrder[i] = StartedOrder[j] => i = j
    \* the starts follow the order bexar, hamilton, davidson, travis
    /\ \A i, j \in 1..Len(Sources) :
          (/\ i < j
           /\ \E k \in 1..Len(StartedOrder) : StartedOrder[k] = Sources[j])
             => \E k, l \in 1..Len(StartedOrder) :
                   k < l /\ StartedOrder[k] = Sources[i] /\ StartedOrder[l] = Sources[j]
    \* a source the run has not reached has no session yet
    /\ \A i \in 1..Len(Sources) : i > county => spawned[Sources[i]] = 0

\* One step of the run, as C12 reads it.
C12_Step ==
    \* a session is acquired only while no session is open, for the current source
    /\ (spawned' # spawned)
          => /\ live = {}
             /\ live' = {Slug}
             /\ county' = county
    \* the run moves from a source to the one after it, never back or over one
    /\ (county' # county) => (county' = county + 1 /\ live' = {})

\* C12: the sources are processed one at a time in the order bexar,
\* hamilton, davidson, travis, each attempted at most once; at most one
\* browser session is open in any state, and a source's session is acquired
\* only after the session of the source before it was released.
C12_StrictlySequential == []C12_State /\ [][C12_Step]_vars

\* C12 witness: hamilton's session is open, after bexar's session was
\* acquired and released and bexar's scrape logged its start.
C12_Witness ==
    /\ county = 2
    /\ live = {"hamilton"}
    /\ spawned["bexar"] = 1
    /\ StartedOrder = <<"bexar">>

\* The page has no table, and for the civic-portal extractor no card either.
NothingToExtract ==
    /\ soup.page
    /\ soup.tables = <<>>
    /\ (Slug = "davidson" => soup.elems = <<>>)

\* C5: a page that is empty or has no table gives the generic extractor (and
\* an empty page gives the civic-portal extractor) an empty record list
\* without a failure; the sink then creates no file of any variant, and the
\* scrape ends normally with its count of 0 logged.
C5_NoMarkupNoFile ==
    (pc = "finally" /\ NothingToExtract)
        => /\ extracted = <<>>
           /\ permits = <<>>
           /\ FilesOf(Slug) = {}
           /\ err = "none"
           /\ log[Len(log)] = LogEntry("INFO", "scraped", Slug, 0)

\* C5 witness: hamilton's portal returned a page without a table and the
\* scrape is at its end.
C5_Witness ==
    /\ pc = "finally"
    /\ county = 2
    /\ NothingToExtract
    /\ log[Len(log)].msg = "scraped"

SortedVariants == {"sorted_" \o SortNames[k] : k \in 1..Len(SortNames)}

\* C7: with --sort every source that saved at least one record has its
\* primary file and one sorted file per sort key; without it the primary only.
C7_FlagSelectsSortedFiles ==
    \A c \in SourceNames :
        "primary" \in VariantsOf(c)
            => VariantsOf(c) = IF args_sort THEN {"primary"} \cup SortedVariants
                               ELSE {"primary"}

WellFormed(cfg) ==
    /\ cfg.file = "ok"
    /\ cfg.global
    /\ cfg.counties = SourceNames
    /\ cfg.selectors = SourceNames

\* C9: with a missing or malformed configuration no browser session is ever
\* opened and no source's scrape starts.
C9_BadConfigAbortsFirst ==
    ~WellFormed(config)
        => /\ \A c \in SourceNames : spawned[c] = 0
           /\ \A c \in SourceNames : ~Logged("INFO", "starting", c)

---------------------------------------------------------------------------
(* Properties of the extractors (SpecExtract)                              *)

\* The data rows of the page's first table (none without a table).
FirstTableRows == IF soup.tables = <<>> THEN <<>> ELSE DataRows(soup.tables[1])

\* The record the column mapping gives a row of four columns or more.
MappedRecord(cols) ==
    [permit_number |-> strip(cols[1]),
     issue_date    |-> strip(cols[2]),
     address       |-> strip(cols[3]),
     work_type     |-> strip(cols[4]),
     contractor    |-> IF Len(cols) >= 5 THEN strip(cols[5]) ELSE <<>>,
     valuation     |-> IF Len(cols) >= 6 THEN strip(cols[6]) ELSE <<>>]

\* C4: for a table whose data rows all have 4, 5 or 6 columns,
\* parse_accela_results returns one record per data row, the header row
\* left out, in row order, with columns 0..5 mapped to permit_number,
\* issue_date, address, work_type, contractor and valuation, the last two
\* empty when the column is absent.
C4_OneRecordPerRow ==
    (/\ pc = "parse_accela_results"
     /\ soup.tables # <<>>
     /\ \A i \in 1..Len(FirstTableRows) : Len(FirstTableRows[i]) \in 4..6)
        => /\ Len(extracted) = Len(FirstTableRows)
           /\ \A i \in 1..Len(FirstTableRows) :
                 extracted[i] = MappedRecord(FirstTableRows[i])

\* The table rows, or the CSV lines, the operation just applied could read,
\* each as its sequence of columns.
RowUnits ==
    IF pc = "parse_csv_permits"
    THEN {CsvDataLines(content)[i] : i \in 1..Len(CsvDataLines(content))}
    ELSE {FirstTableRows[i] : i \in 1..Len(FirstTableRows)}

\* The card texts it could read, each as its sequence of lines.
CardUnits ==
    IF pc = "parse_nashville_results"
    THEN {split(soup.elems[i], "\n") : i \in 1..Len(soup.elems)}
    ELSE {}

\* The record was read from one of the units, which has the four minimum
\* columns.
FromFourColumns(r, units) ==
    \E u \in units :
        /\ Len(u) >= 4
        /\ r.permit_number = strip(u[1])
        /\ r.issue_date = strip(u[2])
        /\ r.address = strip(u[3])
        /\ r.work_type = strip(u[4])

\* The record was made by the card fallback: three lines read, the work
\* type the sentinel, contractor and valuation empty.
FromCard(r) ==
    /\ \E lines \in CardUnits :
          /\ Len(lines) >= 3
          /\ r.permit_number = strip(lines[1])
          /\ r.issue_date = strip(lines[2])
          /\ r.address = strip(lines[3])
    /\ r.work_type = Unknown
    /\ r.contractor = <<>>
    /\ r.valuation = <<>>

\* C10 as stated: every record an extractor emits was read from markup that
\* had all four minimum columns, its work_type among them.
C10_AllFourColumnsRead ==
    \A i \in 1..Len(extracted) :
        FromFourColumns(extracted[i], RowUnits \cup CardUnits)

\* C10 as amended: every record of the table extractors and of the raw-CSV
\* extractor was read from a row or line that had the four minimum columns;
\* a record of the card fallback was read from an element of three lines or
\* more and carries the work type "Unknown", which is not read from markup.
C10_FourColumnsOrCard ==
    \A i \in 1..Len(extracted) :
        \/ FromFourColumns(extracted[i], RowUnits)
        \/ FromCard(extracted[i])

\* C10 witness: the card fallback emitted a record whose work type is the
\* sentinel, beside a table none of whose rows qualified.
C10_Witness ==
    /\ pc = "parse_nashville_results"
    /\ FirstTableRows # <<>>
    /\ extracted # <<>>
    /\ extracted[1].work_type = Unknown

\* The data rows of the first table that have four columns or more.
QualifyingRows == SelectSeq(FirstTableRows, LAMBDA cols : Len(cols) >= 4)

\* C11: parse_nashville_results uses the card fallback only when the page
\* has no table element: with a table present the result is built from the
\* table's rows alone, empty when no row qualifies, whatever cards the page has.
C11_CardsOnlyWithoutTable ==
    (pc = "parse_nashville_results" /\ soup.tables # <<>>)
        => /\ Len(extracted) = Len(QualifyingRows)
           /\ \A i \in 1..Len(extracted) :
                 extracted[i] = MappedRecord(QualifyingRows[i])

---------------------------------------------------------------------------
(* Properties of the sink (SpecSink)                                       *)

\* The rows are the records of the list, each once.
SameRecords(rows, ps) ==
    /\ Len(rows) = Len(ps)
    /\ \A i \in 1..Len(ps) :
          Cardinality({j \in 1..Len(rows) : rows[j] = ps[i]})
              = Cardinality({j \in 1..Len(ps) : ps[j] = ps[i]})

ParsesAsDate(t) == strptime(t).ok

\* Newest first: no row is followed by a row of a later date.
DescendingByDate(rows) ==
    \A i \in 1..Len(rows) : \A j \in (i + 1)..Len(rows) :
        DateOrd(strptime(rows[i].issue_date)) >= DateOrd(strptime(rows[j].issue_date))

\* save_to_csv was applied to a list that is not empty and its open succeeded.
PrimaryWritten == pc = "save_to_csv" /\ extracted # <<>> /\ err # "OSError"

\* C6: the primary file holds all the records; newest first when every
\* issue_date parses as MM/DD/YYYY; in extraction order, not one record
\* moved, with a warning logged, when at least one does not.
C6_DateSortOrFallback ==
    PrimaryWritten
        => \E f \in files :
              /\ f.slug = SinkSlug
              /\ f.variant = "primary"
              /\ SameRecords(f.rows, extracted)
              /\ IF \A i \in 1..Len(extracted) : ParsesAsDate(extracted[i].issue_date)
                 THEN /\ DescendingByDate(f.rows)
                      /\ ~Logged("WARNING", "could_not_sort", SinkSlug)
                 ELSE /\ f.rows = extracted
                      /\ Logged("WARNING", "could_not_sort", SinkSlug)

\* C6 witness: three records, the first two with valid dates in ascending
\* order, the third with a date that does not parse; the file is written.
C6_Witness ==
    /\ PrimaryWritten
    /\ Len(extracted) = 3
    /\ ParsesAsDate(extracted[1].issue_date)
    /\ ParsesAsDate(extracted[2].issue_date)
    /\ DateOrd(strptime(extracted[1].issue_date))
          < DateOrd(strptime(extracted[2].issue_date))
    /\ ~ParsesAsDate(extracted[3].issue_date)
    /\ \E f \in files : f.variant = "primary"

\* The valuation key as C8 describes it: the number left after stripping
\* all but digits and dots, 0 when that is no number.
ClaimedValuationKey(r) ==
    LET parsed == float(StripNonNumeric(r.valuation))
    IN  IF parsed.ok THEN parsed ELSE ZeroKey

\* generate_sorted_versions was applied, its date sort had keys for every
\* record and its opens succeeded.
ValuationSortReached ==
    /\ pc = "generate_sorted_versions"
    /\ ~SortKeyRaises("date", extracted)
    /\ err # "OSError"

\* C8: the valuation-sorted file is written for any valuations, a missing
\* or unparseable one counting as 0 and raising nothing, with the records in
\* descending order of that key.
C8_ValuationKeyNeverRaises ==
    ValuationSortReached
        => /\ err = "none"
           /\ \E f \in files :
                 /\ f.variant = "sorted_valuation"
                 /\ SameRecords(f.rows, extracted)
                 /\ \A i \in 1..Len(f.rows) : \A j \in (i + 1)..Len(f.rows) :
                       ~NumLess(ClaimedValuationKey(f.rows[i]),
                                ClaimedValuationKey(f.rows[j]))

===========================================================================
